---- MODULE Spec2Model ----
(***************************************************************************)
(* A model of the templatehash crate (src/src/lib.rs): the three field     *)
(* digesters, the tagged-hash combiner and the two template views.         *)
(*                                                                         *)
(* Bytes are records so that a literal byte and a digest byte can be       *)
(* compared.  SHA-256 is modelled as an ideal hash: a digest is the record *)
(* of the bytes that were fed to the engine, and its k-th byte is a symbol *)
(* naming that input and k.  Two digests are therefore equal exactly when  *)
(* the engine inputs are equal (collision resistance is assumed, and no    *)
(* digest byte is assumed equal to a literal byte).                        *)
(***************************************************************************)
EXTENDS Integers, Sequences, FiniteSets, TLC

VARIABLES
    debug_assertions,   \* build configuration: is debug_assert! compiled in
    call,               \* the public operation last called, with its arguments
    ret,                \* what that call returned (or that it panicked)
    pc,                 \* per thread: position inside to_templatehash
    targs,              \* per thread: the arguments of the running call
    engine,             \* per engine slot: bytes written to the hash engine
    todo,               \* per thread: items the running digester loop has yet to encode
    acc,                \* per thread: the intermediate digests computed so far
    tres                \* per thread: what the call returned

vars == <<debug_assertions, call, ret, pc, targs, engine, todo, acc, tres>>

(***************************************************************************)
(* Bounds of the model.                                                    *)
(***************************************************************************)
\* longest list of inputs (sequences) of a sampled template
MaxInputs == 2
\* input_index is drawn from 0..MaxIndex (and one large value)
MaxIndex == 2

(***************************************************************************)
(* Bytes, byte strings and integers.                                       *)
(***************************************************************************)
Lit(v) == [kind |-> "lit", pre |-> <<>>, val |-> v]

RECURSIVE Lits(_)
Lits(s) == IF s = <<>> THEN <<>> ELSE <<Lit(Head(s))>> \o Lits(Tail(s))

Repeat(b, n) == [k \in 1..n |-> b]

\* the w low bytes of n, least significant first
RECURSIVE LEBytes(_, _)
LEBytes(n, w) == IF w = 0 THEN <<>> ELSE <<Lit(n % 256)>> \o LEBytes(n \div 256, w - 1)

\* a 64-bit unsigned integer as four 16-bit limbs, least significant first
\* (the model checker's integers are 32 bits wide)
U64(n) == <<n % 65536, (n \div 65536) % 65536, 0, 0>>

RECURSIVE LimbBytes(_)
LimbBytes(ls) == IF ls = <<>> THEN <<>> ELSE LEBytes(Head(ls), 2) \o LimbBytes(Tail(ls))

(***************************************************************************)
(* Consensus encoding (bitcoin::consensus::Encodable), spec section 4.1.   *)
(***************************************************************************)
\* VarInt::consensus_encode on a u64 given as limbs
VarInt_consensus_encode(n) ==
    IF n[2] = 0 /\ n[3] = 0 /\ n[4] = 0 /\ n[1] < 253
    THEN <<Lit(n[1])>>
    ELSE IF n[2] = 0 /\ n[3] = 0 /\ n[4] = 0
    THEN <<Lit(253)>> \o LimbBytes(<<n[1]>>)
    ELSE IF n[3] = 0 /\ n[4] = 0
    THEN <<Lit(254)>> \o LimbBytes(<<n[1], n[2]>>)
    ELSE <<Lit(255)>> \o LimbBytes(n)

\* u8, u32, i32 (non-negative), u64 below 2^31
u8_consensus_encode(b) == LEBytes(b, 1)
u32_consensus_encode(n) == LEBytes(n, 4)
Version_consensus_encode(v) == LEBytes(v, 4)
LockTime_consensus_encode(lt) == LEBytes(lt, 4)
Sequence_consensus_encode(s) == LEBytes(s, 4)
Amount_consensus_encode(a) == LEBytes(a, 8)

\* a script: compact-size length, then the bytes
Script_consensus_encode(s) == VarInt_consensus_encode(U64(Len(s))) \o s

TxOut_consensus_encode(o) == Amount_consensus_encode(o.value) \o Script_consensus_encode(o.script_pubkey)

(***************************************************************************)
(* Hash engines (bitcoin::hashes).                                         *)
(***************************************************************************)
\* sha256::Hash::engine(): nothing written yet
sha256_engine == <<>>

\* io::Write for a hash engine: append
engine_write(e, bytes) == e \o bytes

\* sha256::Hash::from_engine: the digest of everything written
sha256_from_engine(e) == [kind |-> "sha256", pre |-> e]

\* an arbitrary 32-byte value used as a sha256::Hash (from_byte_array)
RawHash(bytes) == [kind |-> "raw", pre |-> bytes]

\* sha256::Hash::consensus_encode: the 32 raw bytes of the digest
Hash_consensus_encode(d) ==
    IF d.kind = "raw" THEN d.pre
    ELSE [k \in 1..32 |-> [kind |-> "sha256", pre |-> d.pre, val |-> k]]

\* "TemplateHash" in ASCII
TemplateHashTag == Lits(<<84, 101, 109, 112, 108, 97, 116, 101, 72, 97, 115, 104>>)

\* a variant of TemplateHash_engine: no tag seed
TemplateHash_engine_unseeded == sha256_engine

\* TemplateHash::engine(): seeded with SHA256(tag) || SHA256(tag)
TemplateHash_engine ==
    LET t == Hash_consensus_encode(sha256_from_engine(engine_write(sha256_engine, TemplateHashTag)))
    IN  engine_write(engine_write(sha256_engine, t), t)

\* TemplateHash::from_engine
TemplateHash_from_engine(e) == sha256_from_engine(e)

(***************************************************************************)
(* Option.                                                                 *)
(***************************************************************************)
None == [some |-> FALSE, v |-> <<>>]
NoneHash == [some |-> FALSE, v |-> [kind |-> "none", pre |-> <<>>]]
Some(x) == [some |-> TRUE, v |-> x]

(***************************************************************************)
(* The field digesters.                                                    *)
(***************************************************************************)
\* the loop of compute_sha_iter over a list of Sequence
RECURSIVE encode_sequences(_, _)
encode_sequences(e, items) ==
    IF items = <<>> THEN e
    ELSE encode_sequences(engine_write(e, Sequence_consensus_encode(Head(items))), Tail(items))

\* the loop of compute_sha_iter over a list of TxOut
RECURSIVE encode_outputs(_, _)
encode_outputs(e, items) ==
    IF items = <<>> THEN e
    ELSE encode_outputs(engine_write(e, TxOut_consensus_encode(Head(items))), Tail(items))

\* a variant of compute_sha_iter_TxOut: only the first item is encoded
compute_sha_iter_TxOut_first_only(items) ==
    sha256_from_engine(encode_outputs(sha256_engine, IF items = <<>> THEN <<>> ELSE <<Head(items)>>))

\* compute_sha_iter at E = Sequence and at E = TxOut
compute_sha_iter_Sequence(items) == sha256_from_engine(encode_sequences(sha256_engine, items))

compute_sha_iter_TxOut(items) == sha256_from_engine(encode_outputs(sha256_engine, items))

sha_sequences(seqs) == compute_sha_iter_Sequence(seqs)

sha_outputs(outs) == compute_sha_iter_TxOut(outs)

\* a variant of sha_annex: the length prefix left out
sha_annex_no_prefix(annex) == sha256_from_engine(engine_write(sha256_engine, annex))

sha_annex(annex) ==
    LET annex_len == U64(Len(annex))
        e1 == engine_write(sha256_engine, VarInt_consensus_encode(annex_len))
        e2 == engine_write(e1, annex)
    IN  sha256_from_engine(e2)

\* annex.map(sha_annex)
map_sha_annex(annex) == IF annex.some THEN Some(sha_annex(annex.v)) ELSE NoneHash

(***************************************************************************)
(* The combiner.                                                           *)
(***************************************************************************)
\* a variant of templatehash_writes: the presence flag written after input_index
templatehash_writes_flag_last(e, version, lock_time, ss, so, input_index, sa) ==
    LET e1 == engine_write(e, Version_consensus_encode(version))
        e2 == engine_write(e1, LockTime_consensus_encode(lock_time))
        e3 == engine_write(e2, Hash_consensus_encode(ss))
        e4 == engine_write(e3, Hash_consensus_encode(so))
        e5 == engine_write(e4, u32_consensus_encode(input_index))
        e6 == engine_write(e5, u8_consensus_encode(IF sa.some THEN 1 ELSE 0))
    IN  IF sa.some THEN engine_write(e6, Hash_consensus_encode(sa.v)) ELSE e6

\* a variant of templatehash_writes: an absent annex digest replaced by 32 zero bytes
templatehash_writes_zero_fill(e, version, lock_time, ss, so, input_index, sa) ==
    LET e1 == engine_write(e, Version_consensus_encode(version))
        e2 == engine_write(e1, LockTime_consensus_encode(lock_time))
        e3 == engine_write(e2, Hash_consensus_encode(ss))
        e4 == engine_write(e3, Hash_consensus_encode(so))
        e5 == engine_write(e4, u8_consensus_encode(IF sa.some THEN 1 ELSE 0))
        e6 == engine_write(e5, u32_consensus_encode(input_index))
    IN  engine_write(e6, IF sa.some THEN Hash_consensus_encode(sa.v) ELSE Repeat(Lit(0), 32))

\* a variant of templatehash_writes: input_index left out
templatehash_writes_no_index(e, version, lock_time, ss, so, input_index, sa) ==
    LET e1 == engine_write(e, Version_consensus_encode(version))
        e2 == engine_write(e1, LockTime_consensus_encode(lock_time))
        e3 == engine_write(e2, Hash_consensus_encode(ss))
        e4 == engine_write(e3, Hash_consensus_encode(so))
        e5 == engine_write(e4, u8_consensus_encode(IF sa.some THEN 1 ELSE 0))
        e6 == engine_write(e5, u32_consensus_encode(0))
    IN  IF sa.some THEN engine_write(e6, Hash_consensus_encode(sa.v)) ELSE e6

\* the writes of templatehash, in program order, on engine e
templatehash_writes(e, version, lock_time, ss, so, input_index, sa) ==
    LET e1 == engine_write(e, Version_consensus_encode(version))
        e2 == engine_write(e1, LockTime_consensus_encode(lock_time))
        e3 == engine_write(e2, Hash_consensus_encode(ss))
        e4 == engine_write(e3, Hash_consensus_encode(so))
        annex_present == IF sa.some THEN 1 ELSE 0
        e5 == engine_write(e4, u8_consensus_encode(annex_present))
        e6 == engine_write(e5, u32_consensus_encode(input_index))
        e7 == IF sa.some THEN engine_write(e6, Hash_consensus_encode(sa.v)) ELSE e6
    IN  e7

templatehash(version, lock_time, ss, so, input_index, sa) ==
    TemplateHash_from_engine(templatehash_writes(TemplateHash_engine, version, lock_time, ss, so, input_index, sa))

(***************************************************************************)
(* The template views.                                                     *)
(***************************************************************************)
NoHash == [kind |-> "none", pre |-> <<>>]
Panicked == [outcome |-> "panicked", hash |-> NoHash, digests |-> <<>>, written |-> <<>>]
Returned(h, ds) == [outcome |-> "returned", hash |-> h, digests |-> ds, written |-> <<>>]
NoRet == [outcome |-> "none", hash |-> NoHash, digests |-> <<>>, written |-> <<>>]

\* a variant of input_sequences: reads previous_output.vout instead of sequence
input_sequences_from_vout(tx) == [k \in 1..Len(tx.input) |-> tx.input[k].previous_output.vout]

\* self.input.iter().map(|input| &input.sequence)
input_sequences(tx) == [k \in 1..Len(tx.input) |-> tx.input[k].sequence]

\* the digests a view hands to templatehash, in evaluation order
view_digests(seqs, outs, annex) ==
    <<sha_sequences(seqs), sha_outputs(outs)>> \o (IF annex.some THEN <<sha_annex(annex.v)>> ELSE <<>>)

\* a variant of to_templatehash_Transaction: assert! instead of debug_assert!
to_templatehash_Transaction_assert(tx, input_index, annex) ==
    IF ~(input_index < Len(tx.input))
    THEN Panicked
    ELSE Returned(templatehash(tx.version, tx.lock_time, sha_sequences(input_sequences(tx)), sha_outputs(tx.output), input_index, map_sha_annex(annex)), view_digests(input_sequences(tx), tx.output, annex))

\* impl ToTemplateHash for &Transaction
to_templatehash_Transaction(tx, input_index, annex) ==
    IF debug_assertions /\ ~(input_index < Len(tx.input))
    THEN Panicked
    ELSE Returned(templatehash(tx.version, tx.lock_time, sha_sequences(input_sequences(tx)), sha_outputs(tx.output), input_index, map_sha_annex(annex)), view_digests(input_sequences(tx), tx.output, annex))

\* a variant of to_templatehash_TransactionTemplate: the bound check off by one
to_templatehash_TransactionTemplate_off_by_one(t, input_index, annex) ==
    IF debug_assertions /\ ~(input_index <= Len(t.sequences))
    THEN Panicked
    ELSE Returned(templatehash(t.version, t.lock_time, sha_sequences(t.sequences), sha_outputs(t.outputs), input_index, map_sha_annex(annex)), view_digests(t.sequences, t.outputs, annex))

\* impl ToTemplateHash for &TransactionTemplate
to_templatehash_TransactionTemplate(t, input_index, annex) ==
    IF debug_assertions /\ ~(input_index < Len(t.sequences))
    THEN Panicked
    ELSE Returned(templatehash(t.version, t.lock_time, sha_sequences(t.sequences), sha_outputs(t.outputs), input_index, map_sha_annex(annex)), view_digests(t.sequences, t.outputs, annex))

\* TemplateHash::from_transaction
from_transaction(tx, input_index, annex) == to_templatehash_Transaction(tx, input_index, annex)

\* TransactionTemplate::templatehash
TransactionTemplate_templatehash(t, input_index, annex) == to_templatehash_TransactionTemplate(t, input_index, annex)

(***************************************************************************)
(* Sampled inputs.                                                         *)
(***************************************************************************)
Versions == {2, 258}
LockTimes == {0, 500000000}
SequenceValues == {0, 258}
SequenceLists == UNION {[1..n -> SequenceValues] : n \in 0..MaxInputs}
TxOutA == [value |-> 42, script_pubkey |-> Lits(<<106>>)]
TxOutB == [value |-> 424242, script_pubkey |-> Lits(<<81, 32>>)]
OutputLists == {<<>>, <<TxOutA>>, <<TxOutA, TxOutB>>, <<TxOutB, TxOutA>>}
InputIndices == (0..MaxIndex) \cup {16909060}
ZeroAnnex == Repeat(Lit(0), 32)
LongAnnex == <<Lit(80)>> \o Repeat(Lit(0), 252)
AnnexSamples == {<<>>, Lits(<<80, 1>>), ZeroAnnex}
AnnexOptions == {None} \cup {Some(a) : a \in AnnexSamples}

\* the fields of a TxIn the template hash does not commit to
Uncommitted ==
    { [previous_output |-> [txid |-> 0, vout |-> 0], script_sig |-> <<>>, witness |-> <<>>],
      [previous_output |-> [txid |-> 1, vout |-> 7], script_sig |-> Lits(<<81>>), witness |-> <<Lits(<<80>>)>>] }

TxIn(u, s) == [previous_output |-> u.previous_output, script_sig |-> u.script_sig, sequence |-> s, witness |-> u.witness]

Transaction(v, lt, seqs, outs, u) ==
    [version |-> v, lock_time |-> lt, input |-> [k \in 1..Len(seqs) |-> TxIn(u, seqs[k])], output |-> outs]

TransactionTemplate(v, lt, seqs, outs) ==
    [version |-> v, lock_time |-> lt, sequences |-> seqs, outputs |-> outs]

Transactions ==
    {Transaction(v, lt, s, o, u) : v \in Versions, lt \in LockTimes, s \in SequenceLists, o \in OutputLists, u \in Uncommitted}

Templates ==
    {TransactionTemplate(v, lt, s, o) : v \in Versions, lt \in LockTimes, s \in SequenceLists, o \in OutputLists}

ZeroHash == RawHash(Repeat(Lit(0), 32))
SeqDigests == {sha_sequences(<<>>), ZeroHash}
OutDigests == {sha_outputs(<<>>), sha_outputs(<<TxOutA>>)}
AnnexDigests == {NoneHash, Some(ZeroHash), Some(sha_annex(<<>>))}

\* lengths at the edges of the compact-size ranges, as limbs
LengthSamples ==
    { <<0, 0, 0, 0>>, <<1, 0, 0, 0>>, <<252, 0, 0, 0>>, <<253, 0, 0, 0>>, <<65535, 0, 0, 0>>,
      <<0, 1, 0, 0>>, <<65535, 65535, 0, 0>>, <<0, 0, 1, 0>>, <<513, 0, 0, 772>> }

Threads == {1, 2}

(***************************************************************************)
(* Specification Spec: one public call at a time, each call atomic.        *)
(***************************************************************************)
Idle == [op |-> "idle"]

EngineInit ==
    /\ pc = [t \in Threads |-> "idle"]
    /\ targs = [t \in Threads |-> Idle]
    /\ engine = [t \in Threads |-> <<>>]
    /\ todo = [t \in Threads |-> <<>>]
    /\ acc = [t \in Threads |-> <<>>]
    /\ tres = [t \in Threads |-> NoRet]

Init ==
    /\ debug_assertions \in BOOLEAN
    /\ call = Idle
    /\ ret = NoRet
    /\ EngineInit

Call_to_templatehash_Transaction ==
    /\ call = Idle
    /\ \E tx \in Transactions, i \in InputIndices, a \in AnnexOptions :
        /\ call' = [op |-> "Transaction::to_templatehash", view |-> tx, input_index |-> i, annex |-> a]
        /\ ret' = to_templatehash_Transaction(tx, i, a)
    /\ UNCHANGED <<debug_assertions, pc, targs, engine, todo, acc, tres>>

Call_to_templatehash_TransactionTemplate ==
    /\ call = Idle
    /\ \E t \in Templates, i \in InputIndices, a \in AnnexOptions :
        /\ call' = [op |-> "TransactionTemplate::to_templatehash", view |-> t, input_index |-> i, annex |-> a]
        /\ ret' = to_templatehash_TransactionTemplate(t, i, a)
    /\ UNCHANGED <<debug_assertions, pc, targs, engine, todo, acc, tres>>

Call_from_transaction ==
    /\ call = Idle
    /\ \E tx \in Transactions, i \in InputIndices, a \in AnnexOptions :
        /\ call' = [op |-> "TemplateHash::from_transaction", view |-> tx, input_index |-> i, annex |-> a]
        /\ ret' = from_transaction(tx, i, a)
    /\ UNCHANGED <<debug_assertions, pc, targs, engine, todo, acc, tres>>

Call_TransactionTemplate_templatehash ==
    /\ call = Idle
    /\ \E t \in Templates, i \in InputIndices, a \in AnnexOptions :
        /\ call' = [op |-> "TransactionTemplate::templatehash", view |-> t, input_index |-> i, annex |-> a]
        /\ ret' = TransactionTemplate_templatehash(t, i, a)
    /\ UNCHANGED <<debug_assertions, pc, targs, engine, todo, acc, tres>>

Call_templatehash ==
    /\ call = Idle
    /\ \E v \in Versions, lt \in LockTimes, ss \in SeqDigests, so \in OutDigests, i \in InputIndices, sa \in AnnexDigests :
        /\ call' = [op |-> "templatehash", version |-> v, lock_time |-> lt, sha_sequences |-> ss, sha_outputs |-> so, input_index |-> i, sha_annex |-> sa]
        /\ ret' = Returned(templatehash(v, lt, ss, so, i, sa), <<>>)
    /\ UNCHANGED <<debug_assertions, pc, targs, engine, todo, acc, tres>>

Call_sha_sequences ==
    /\ call = Idle
    /\ \E s \in SequenceLists :
        /\ call' = [op |-> "sha_sequences", items |-> s]
        /\ ret' = Returned(sha_sequences(s), <<>>)
    /\ UNCHANGED <<debug_assertions, pc, targs, engine, todo, acc, tres>>

Call_sha_outputs ==
    /\ call = Idle
    /\ \E o \in OutputLists :
        /\ call' = [op |-> "sha_outputs", items |-> o]
        /\ ret' = Returned(sha_outputs(o), <<>>)
    /\ UNCHANGED <<debug_assertions, pc, targs, engine, todo, acc, tres>>

Call_sha_annex ==
    /\ call = Idle
    /\ \E a \in AnnexSamples \cup {LongAnnex} :
        /\ call' = [op |-> "sha_annex", annex |-> a]
        /\ ret' = Returned(sha_annex(a), <<>>)
    /\ UNCHANGED <<debug_assertions, pc, targs, engine, todo, acc, tres>>

\* the length prefix sha_annex writes for an annex of n bytes
Call_annex_len_encode ==
    /\ call = Idle
    /\ \E n \in LengthSamples :
        /\ call' = [op |-> "annex_len.consensus_encode", len |-> n]
        /\ ret' = [NoRet EXCEPT !.outcome = "returned", !.written = engine_write(sha256_engine, VarInt_consensus_encode(n))]
    /\ UNCHANGED <<debug_assertions, pc, targs, engine, todo, acc, tres>>

\* the caller takes the result; the library keeps nothing
Return ==
    /\ call # Idle
    /\ call' = Idle
    /\ ret' = NoRet
    /\ UNCHANGED <<debug_assertions, pc, targs, engine, todo, acc, tres>>

Next ==
    \/ Call_to_templatehash_Transaction
    \/ Call_to_templatehash_TransactionTemplate
    \/ Call_from_transaction
    \/ Call_TransactionTemplate_templatehash
    \/ Call_templatehash
    \/ Call_sha_sequences
    \/ Call_sha_outputs
    \/ Call_sha_annex
    \/ Call_annex_len_encode
    \/ Return

Spec == Init /\ [][Next]_vars

(***************************************************************************)
(* Specification SpecEngine: two threads run to_templatehash concurrently, *)
(* one engine write at a time.                                             *)
(***************************************************************************)
\* a variant of EngineSlot: one engine shared by every call
EngineSlot_shared(t) == 1

\* where a call's engine lives: a local of the running call
EngineSlot(t) == t

EngineCalls ==
    { [kind |-> k, view |-> v, input_index |-> i, annex |-> a] :
        k \in {"TransactionTemplate"},
        v \in {TransactionTemplate(2, 0, <<0, 258>>, <<TxOutA>>)},
        i \in {0, 1}, a \in {None, Some(Lits(<<80, 1>>))} }
    \cup
    { [kind |-> k, view |-> v, input_index |-> i, annex |-> a] :
        k \in {"Transaction"},
        v \in {Transaction(258, 500000000, <<258>>, <<TxOutA, TxOutB>>, u) : u \in Uncommitted},
        i \in {1}, a \in {Some(Lits(<<80, 1>>))} }

view_sequences(a) == IF a.kind = "Transaction" THEN input_sequences(a.view) ELSE a.view.sequences
view_outputs(a) == IF a.kind = "Transaction" THEN a.view.output ELSE a.view.outputs

InitEngine ==
    /\ debug_assertions \in BOOLEAN
    /\ call = Idle
    /\ ret = NoRet
    /\ EngineInit

E_call(t) ==
    /\ pc[t] = "idle"
    /\ \E a \in EngineCalls : targs' = [targs EXCEPT ![t] = a]
    /\ pc' = [pc EXCEPT ![t] = "debug_assert"]
    /\ acc' = [acc EXCEPT ![t] = <<>>]
    /\ UNCHANGED <<debug_assertions, call, ret, engine, todo, tres>>

\* debug_assert!((input_index as usize) < len)
E_debug_assert(t) ==
    /\ pc[t] = "debug_assert"
    /\ IF debug_assertions /\ ~(targs[t].input_index < Len(view_sequences(targs[t])))
       THEN /\ pc' = [pc EXCEPT ![t] = "panicked"]
            /\ tres' = [tres EXCEPT ![t] = Panicked]
       ELSE /\ pc' = [pc EXCEPT ![t] = "sha_sequences"]
            /\ tres' = tres
    /\ UNCHANGED <<debug_assertions, call, ret, targs, engine, todo, acc>>

\* compute_sha_iter: let mut engine = sha256::Hash::engine()
E_iter_begin(t) ==
    /\ pc[t] \in {"sha_sequences", "sha_outputs"}
    /\ engine' = [engine EXCEPT ![EngineSlot(t)] = sha256_engine]
    /\ todo' = [todo EXCEPT ![t] = IF pc[t] = "sha_sequences" THEN view_sequences(targs[t]) ELSE view_outputs(targs[t])]
    /\ pc' = [pc EXCEPT ![t] = IF pc[t] = "sha_sequences" THEN "sequences_loop" ELSE "outputs_loop"]
    /\ UNCHANGED <<debug_assertions, call, ret, targs, acc, tres>>

\* compute_sha_iter: one turn of the loop
E_iter_item(t) ==
    /\ pc[t] \in {"sequences_loop", "outputs_loop"}
    /\ todo[t] # <<>>
    /\ engine' = [engine EXCEPT ![EngineSlot(t)] =
            IF pc[t] = "sequences_loop"
            THEN engine_write(@, Sequence_consensus_encode(Head(todo[t])))
            ELSE engine_write(@, TxOut_consensus_encode(Head(todo[t])))]
    /\ todo' = [todo EXCEPT ![t] = Tail(@)]
    /\ UNCHANGED <<debug_assertions, call, ret, pc, targs, acc, tres>>

\* compute_sha_iter: sha256::Hash::from_engine(engine)
E_iter_end(t) ==
    /\ pc[t] \in {"sequences_loop", "outputs_loop"}
    /\ todo[t] = <<>>
    /\ acc' = [acc EXCEPT ![t] = Append(@, sha256_from_engine(engine[EngineSlot(t)]))]
    /\ pc' = [pc EXCEPT ![t] = IF pc[t] = "sequences_loop" THEN "sha_outputs" ELSE "sha_annex"]
    /\ UNCHANGED <<debug_assertions, call, ret, targs, engine, todo, tres>>

\* annex.map(sha_annex), None: nothing to do
E_annex_none(t) ==
    /\ pc[t] = "sha_annex"
    /\ ~targs[t].annex.some
    /\ pc' = [pc EXCEPT ![t] = "templatehash"]
    /\ UNCHANGED <<debug_assertions, call, ret, targs, engine, todo, acc, tres>>

\* sha_annex: a new engine, then the length prefix
E_annex_begin(t) ==
    /\ pc[t] = "sha_annex"
    /\ targs[t].annex.some
    /\ engine' = [engine EXCEPT ![EngineSlot(t)] =
            engine_write(sha256_engine, VarInt_consensus_encode(U64(Len(targs[t].annex.v))))]
    /\ pc' = [pc EXCEPT ![t] = "annex_write_all"]
    /\ UNCHANGED <<debug_assertions, call, ret, targs, todo, acc, tres>>

\* sha_annex: engine.write_all(annex)
E_annex_write_all(t) ==
    /\ pc[t] = "annex_write_all"
    /\ engine' = [engine EXCEPT ![EngineSlot(t)] = engine_write(@, targs[t].annex.v)]
    /\ pc' = [pc EXCEPT ![t] = "annex_end"]
    /\ UNCHANGED <<debug_assertions, call, ret, targs, todo, acc, tres>>

\* sha_annex: sha256::Hash::from_engine(engine)
E_annex_end(t) ==
    /\ pc[t] = "annex_end"
    /\ acc' = [acc EXCEPT ![t] = Append(@, sha256_from_engine(engine[EngineSlot(t)]))]
    /\ pc' = [pc EXCEPT ![t] = "templatehash"]
    /\ UNCHANGED <<debug_assertions, call, ret, targs, engine, todo, tres>>

\* templatehash: let mut engine = TemplateHash::engine()
E_templatehash_begin(t) ==
    /\ pc[t] = "templatehash"
    /\ engine' = [engine EXCEPT ![EngineSlot(t)] = TemplateHash_engine]
    /\ pc' = [pc EXCEPT ![t] = "w_version"]
    /\ UNCHANGED <<debug_assertions, call, ret, targs, todo, acc, tres>>

\* the field templatehash encodes at position p of its body
field_bytes(p, a, ds) ==
    CASE p = "w_version" -> Version_consensus_encode(a.view.version)
      [] p = "w_lock_time" -> LockTime_consensus_encode(a.view.lock_time)
      [] p = "w_sha_sequences" -> Hash_consensus_encode(ds[1])
      [] p = "w_sha_outputs" -> Hash_consensus_encode(ds[2])
      [] p = "w_annex_present" -> u8_consensus_encode(IF a.annex.some THEN 1 ELSE 0)
      [] p = "w_input_index" -> u32_consensus_encode(a.input_index)
      [] p = "w_sha_annex" -> IF a.annex.some THEN Hash_consensus_encode(ds[3]) ELSE <<>>

\* the position after p
field_after(p) ==
    CASE p = "w_version" -> "w_lock_time"
      [] p = "w_lock_time" -> "w_sha_sequences"
      [] p = "w_sha_sequences" -> "w_sha_outputs"
      [] p = "w_sha_outputs" -> "w_annex_present"
      [] p = "w_annex_present" -> "w_input_index"
      [] p = "w_input_index" -> "w_sha_annex"
      [] p = "w_sha_annex" -> "from_engine"

WritePositions == {"w_version", "w_lock_time", "w_sha_sequences", "w_sha_outputs", "w_annex_present", "w_input_index", "w_sha_annex"}

\* templatehash: one consensus_encode(&mut engine)
E_templatehash_write(t) ==
    /\ pc[t] \in WritePositions
    /\ engine' = [engine EXCEPT ![EngineSlot(t)] = engine_write(@, field_bytes(pc[t], targs[t], acc[t]))]
    /\ pc' = [pc EXCEPT ![t] = field_after(pc[t])]
    /\ UNCHANGED <<debug_assertions, call, ret, targs, todo, acc, tres>>

\* templatehash: TemplateHash::from_engine(engine)
E_templatehash_end(t) ==
    /\ pc[t] = "from_engine"
    /\ tres' = [tres EXCEPT ![t] = Returned(TemplateHash_from_engine(engine[EngineSlot(t)]), acc[t])]
    /\ pc' = [pc EXCEPT ![t] = "done"]
    /\ UNCHANGED <<debug_assertions, call, ret, targs, engine, todo, acc>>

\* the caller takes the result (or the panic unwinds); the locals are dropped
E_return(t) ==
    /\ pc[t] \in {"done", "panicked"}
    /\ pc' = [pc EXCEPT ![t] = "idle"]
    /\ targs' = [targs EXCEPT ![t] = Idle]
    /\ engine' = [engine EXCEPT ![EngineSlot(t)] = <<>>]
    /\ acc' = [acc EXCEPT ![t] = <<>>]
    /\ tres' = [tres EXCEPT ![t] = NoRet]
    /\ UNCHANGED <<debug_assertions, call, ret, todo>>

NextEngine ==
    \E t \in Threads :
        \/ E_call(t)
        \/ E_debug_assert(t)
        \/ E_iter_begin(t)
        \/ E_iter_item(t)
        \/ E_iter_end(t)
        \/ E_annex_none(t)
        \/ E_annex_begin(t)
        \/ E_annex_write_all(t)
        \/ E_annex_end(t)
        \/ E_templatehash_begin(t)
        \/ E_templatehash_write(t)
        \/ E_templatehash_end(t)
        \/ E_return(t)

SpecEngine == InitEngine /\ [][NextEngine]_vars

(***************************************************************************)
(* Properties.  The expected encodings below are written out from the      *)
(* byte layout, independently of the operators above.                      *)
(***************************************************************************)
\* bytes m..n of s, or nothing when s is too short
Slice(s, m, n) == IF m >= 1 /\ n <= Len(s) THEN SubSeq(s, m, n) ELSE <<>>

LE4(n) == <<Lit(n % 256), Lit((n \div 256) % 256), Lit((n \div 65536) % 256), Lit((n \div 16777216) % 256)>>

DigestBytes(d) == IF d.kind = "raw" THEN d.pre ELSE [k \in 1..32 |-> [kind |-> "sha256", pre |-> d.pre, val |-> k]]

\* SHA256("TemplateHash") twice
TagSeed ==
    LET tag == <<Lit(84), Lit(101), Lit(109), Lit(112), Lit(108), Lit(97), Lit(116), Lit(101), Lit(72), Lit(97), Lit(115), Lit(104)>>
        t == [k \in 1..32 |-> [kind |-> "sha256", pre |-> tag, val |-> k]]
    IN  t \o t

\* what was written to the tagged engine after its seed
Body(h) == Slice(h.pre, 65, Len(h.pre))

TxOps == {"Transaction::to_templatehash", "TemplateHash::from_transaction"}
TemplateOps == {"TransactionTemplate::to_templatehash", "TransactionTemplate::templatehash"}
ViewOps == TxOps \cup TemplateOps

\* the committed lists of the view of the current call
CallSequences ==
    IF call.op \in TxOps THEN [k \in 1..Len(call.view.input) |-> call.view.input[k].sequence] ELSE call.view.sequences
CallOutputs == IF call.op \in TxOps THEN call.view.output ELSE call.view.outputs

ViewReturned == call.op \in ViewOps /\ ret.outcome = "returned"

\* the current entry point on other arguments
ViewCall(view, i, a) ==
    CASE call.op = "Transaction::to_templatehash" -> to_templatehash_Transaction(view, i, a)
      [] call.op = "TemplateHash::from_transaction" -> from_transaction(view, i, a)
      [] call.op = "TransactionTemplate::to_templatehash" -> to_templatehash_TransactionTemplate(view, i, a)
      [] call.op = "TransactionTemplate::templatehash" -> TransactionTemplate_templatehash(view, i, a)

ExpectedBody(version, lock_time, ss, so, i, sa) ==
    LE4(version) \o LE4(lock_time) \o DigestBytes(ss) \o DigestBytes(so)
        \o <<Lit(IF sa.some THEN 1 ELSE 0)>> \o LE4(i) \o (IF sa.some THEN DigestBytes(sa.v) ELSE <<>>)

\* C1: the bytes templatehash feeds to the tagged engine are version (4 LE),
\* lock_time (4 LE), sha_sequences (32), sha_outputs (32), one flag byte (1 iff
\* an annex digest is present), input_index (4 LE), then sha_annex (32) only
\* when present: 77 bytes without an annex digest, 109 with one; the flag is 1
\* for every present annex, the empty annex included.
C1_PreimageLayout ==
    /\ call.op = "templatehash" =>
        /\ Body(ret.hash) = ExpectedBody(call.version, call.lock_time, call.sha_sequences, call.sha_outputs, call.input_index, call.sha_annex)
        /\ Len(Body(ret.hash)) = IF call.sha_annex.some THEN 109 ELSE 77
    /\ ViewReturned =>
        /\ Body(ret.hash) = ExpectedBody(call.view.version, call.view.lock_time, ret.digests[1], ret.digests[2], call.input_index,
                                         IF call.annex.some THEN Some(ret.digests[3]) ELSE NoneHash)
        /\ Len(Body(ret.hash)) = IF call.annex.some THEN 109 ELSE 77
        /\ Body(ret.hash)[73] = Lit(IF call.annex.some THEN 1 ELSE 0)

C1_Witness ==
    /\ call.op = "TransactionTemplate::to_templatehash"
    /\ ret.outcome = "returned"
    /\ call.annex = Some(<<>>)
    /\ Len(Body(ret.hash)) = 109
    /\ Body(ret.hash)[73] = Lit(1)

OtherAnnexDigests == AnnexDigests \cup {Some(sha_annex(a)) : a \in AnnexSamples}

\* C2: with everything else fixed, the hash without an annex differs from the
\* hash with any annex (any annex digest, the all-zero digest included): the
\* two preimages differ in the flag byte and in length.
C2_AnnexPresenceSeparates ==
    /\ call.op = "templatehash" =>
        \A sa \in OtherAnnexDigests :
            sa.some # call.sha_annex.some =>
                LET o == templatehash(call.version, call.lock_time, call.sha_sequences, call.sha_outputs, call.input_index, sa)
                IN  /\ o # ret.hash
                    /\ Len(o.pre) # Len(ret.hash.pre)
                    /\ o.pre[137] # ret.hash.pre[137]
    /\ ViewReturned =>
        \A a \in AnnexOptions :
            a.some # call.annex.some =>
                LET o == ViewCall(call.view, call.input_index, a).hash
                IN  /\ o # ret.hash
                    /\ Len(o.pre) # Len(ret.hash.pre)
                    /\ o.pre[137] # ret.hash.pre[137]

C2_Witness ==
    /\ call.op = "templatehash"
    /\ ret.outcome = "returned"
    /\ call.sha_annex = Some(ZeroHash)
    /\ ret.hash # templatehash(call.version, call.lock_time, call.sha_sequences, call.sha_outputs, call.input_index, NoneHash)

\* C3: in a debug build both views panic, before computing any digest, exactly
\* when input_index is not below the number of sequences; a view with no
\* sequences is rejected for every input_index.
C3_DebugBoundsCheck ==
    (call.op \in ViewOps /\ debug_assertions) =>
        /\ ret.outcome = "panicked" <=> ~(call.input_index < Len(CallSequences))
        /\ ret.outcome = "returned" <=> call.input_index < Len(CallSequences)
        /\ ret.outcome = "panicked" => ret.hash = NoHash /\ ret.digests = <<>>
        /\ CallSequences = <<>> => ret.outcome = "panicked"

C3_Witness ==
    /\ debug_assertions
    /\ call.op = "TransactionTemplate::to_templatehash"
    /\ CallSequences = <<>>
    /\ call.input_index = 0
    /\ ret.outcome = "panicked"

\* the template with the committed fields of a transaction
TemplateOf(tx) ==
    [version |-> tx.version, lock_time |-> tx.lock_time,
     sequences |-> [k \in 1..Len(tx.input) |-> tx.input[k].sequence], outputs |-> tx.output]

\* the transaction with the uncommitted fields of every input replaced
WithUncommitted(tx, u) ==
    [tx EXCEPT !.input = [k \in 1..Len(tx.input) |-> TxIn(u, tx.input[k].sequence)]]

\* C4: a transaction and a template with the same version, lock_time,
\* sequences and outputs give the same result for every input_index and
\* annex; the other fields of the transaction do not matter; the wrappers
\* from_transaction and TransactionTemplate::templatehash return what
\* to_templatehash returns.
C4_ViewsAgree ==
    /\ call.op \in TxOps =>
        /\ ret = to_templatehash_TransactionTemplate(TemplateOf(call.view), call.input_index, call.annex)
        /\ ret = TransactionTemplate_templatehash(TemplateOf(call.view), call.input_index, call.annex)
        /\ \A u \in Uncommitted :
            /\ ret = to_templatehash_Transaction(WithUncommitted(call.view, u), call.input_index, call.annex)
            /\ ret = from_transaction(WithUncommitted(call.view, u), call.input_index, call.annex)
    /\ call.op \in TemplateOps =>
        /\ ret = to_templatehash_TransactionTemplate(call.view, call.input_index, call.annex)
        /\ \A u \in Uncommitted :
            LET tx == Transaction(call.view.version, call.view.lock_time, call.view.sequences, call.view.outputs, u)
            IN  /\ ret = to_templatehash_Transaction(tx, call.input_index, call.annex)
                /\ ret = from_transaction(tx, call.input_index, call.annex)

C4_Witness ==
    /\ call.op = "TemplateHash::from_transaction"
    /\ ret.outcome = "returned"
    /\ Len(call.view.input) = 2
    /\ call.view.input[1].previous_output.vout = 7
    /\ call.view.input[1].sequence # call.view.input[2].sequence
    /\ call.annex.some

RECURSIVE SequencesPreimage(_)
SequencesPreimage(seqs) == IF seqs = <<>> THEN <<>> ELSE LE4(Head(seqs)) \o SequencesPreimage(Tail(seqs))

\* amounts below 2^32, scripts shorter than 253 bytes
RECURSIVE OutputsPreimage(_)
OutputsPreimage(outs) ==
    IF outs = <<>> THEN <<>>
    ELSE LE4(Head(outs).value) \o LE4(0) \o <<Lit(Len(Head(outs).script_pubkey))>> \o Head(outs).script_pubkey
            \o OutputsPreimage(Tail(outs))

PlainSha256(bytes) == [kind |-> "sha256", pre |-> bytes]

\* C5: the sequence digest and the output digest of to_templatehash are plain
\* SHA-256 over every sequence (4 LE each) and every output (amount 8 LE, then
\* the compact-size-prefixed script) in list order, whatever input_index and
\* annex are; an empty list hashes the empty string.
C5_DigestsCoverWholeLists ==
    /\ ViewReturned =>
        /\ ret.digests[1] = PlainSha256(SequencesPreimage(CallSequences))
        /\ ret.digests[2] = PlainSha256(OutputsPreimage(CallOutputs))
        /\ Slice(Body(ret.hash), 9, 40) = DigestBytes(PlainSha256(SequencesPreimage(CallSequences)))
        /\ Slice(Body(ret.hash), 41, 72) = DigestBytes(PlainSha256(OutputsPreimage(CallOutputs)))
    /\ call.op = "sha_sequences" =>
        /\ ret.hash = PlainSha256(SequencesPreimage(call.items))
        /\ call.items = <<>> => ret.hash = PlainSha256(<<>>)
    /\ call.op = "sha_outputs" =>
        /\ ret.hash = PlainSha256(OutputsPreimage(call.items))
        /\ call.items = <<>> => ret.hash = PlainSha256(<<>>)

C5_Witness ==
    /\ ViewReturned
    /\ Len(CallSequences) = 2
    /\ Len(CallOutputs) = 2
    /\ call.input_index = 0
    /\ Len(ret.digests[1].pre) = 8
    /\ Len(ret.digests[2].pre) = 21

\* the length a compact-size prefix stands for, as limbs
CompactSizeDecode(b) ==
    CASE b[1].val < 253 -> <<b[1].val, 0, 0, 0>>
      [] b[1].val = 253 -> <<b[2].val + 256 * b[3].val, 0, 0, 0>>
      [] b[1].val = 254 -> <<b[2].val + 256 * b[3].val, b[4].val + 256 * b[5].val, 0, 0>>
      [] b[1].val = 255 -> <<b[2].val + 256 * b[3].val, b[4].val + 256 * b[5].val, b[6].val + 256 * b[7].val, b[8].val + 256 * b[9].val>>

\* the prefix size the compact-size rule gives a length
CompactSizeLen(n) ==
    IF n[2] = 0 /\ n[3] = 0 /\ n[4] = 0 /\ n[1] < 253 THEN 1
    ELSE IF n[2] = 0 /\ n[3] = 0 /\ n[4] = 0 THEN 3
    ELSE IF n[3] = 0 /\ n[4] = 0 THEN 5
    ELSE 9

\* n = 0, 1, 0xfc, 0xfd, 0xffff, 0x10000, 0xffffffff, 0x100000000 and the prefix sizes
EdgePrefixSizes ==
    { <<<<0, 0, 0, 0>>, 1>>, <<<<1, 0, 0, 0>>, 1>>, <<<<252, 0, 0, 0>>, 1>>, <<<<253, 0, 0, 0>>, 3>>,
      <<<<65535, 0, 0, 0>>, 3>>, <<<<0, 1, 0, 0>>, 5>>, <<<<65535, 65535, 0, 0>>, 5>>, <<<<0, 0, 1, 0>>, 9>> }

\* C6: sha_annex is plain SHA-256 over the compact-size length of the annex
\* followed by the annex bytes as given, whatever the bytes are; the prefix is
\* 1, 3, 5 or 9 bytes by magnitude, with markers 0xfd, 0xfe, 0xff, and decodes
\* back to the length.
C6_AnnexDigest ==
    /\ call.op = "sha_annex" =>
        /\ ret.outcome = "returned"
        /\ ret.hash.kind = "sha256"
        /\ LET n == U64(Len(call.annex))
               w == CompactSizeLen(n)
           IN  /\ Len(ret.hash.pre) = w + Len(call.annex)
               /\ CompactSizeDecode(Slice(ret.hash.pre, 1, w)) = n
               /\ Slice(ret.hash.pre, w + 1, Len(ret.hash.pre)) = call.annex
    /\ call.op = "annex_len.consensus_encode" =>
        /\ Len(ret.written) = CompactSizeLen(call.len)
        /\ CompactSizeDecode(ret.written) = call.len
        /\ ret.written[1].val = (CASE Len(ret.written) = 1 -> call.len[1]
                                   [] Len(ret.written) = 3 -> 253
                                   [] Len(ret.written) = 5 -> 254
                                   [] Len(ret.written) = 9 -> 255)
        /\ \A e \in EdgePrefixSizes : call.len = e[1] => Len(ret.written) = e[2]
    /\ ViewReturned /\ call.annex.some =>
        LET w == CompactSizeLen(U64(Len(call.annex.v)))
        IN  /\ Len(ret.digests[3].pre) = w + Len(call.annex.v)
            /\ CompactSizeDecode(Slice(ret.digests[3].pre, 1, w)) = U64(Len(call.annex.v))
            /\ Slice(ret.digests[3].pre, w + 1, Len(ret.digests[3].pre)) = call.annex.v

C6_Witness ==
    /\ call.op = "sha_annex"
    /\ Len(call.annex) = 253
    /\ ret.hash.pre[1] = Lit(253)
    /\ Len(ret.hash.pre) = 256

\* C7: in a template with at least 2 inputs, two distinct valid input_index
\* values give distinct hashes; the preimages differ in the 4 bytes of
\* input_index and nowhere else.
C7_IndexSensitive ==
    (ViewReturned /\ Len(CallSequences) >= 2 /\ call.input_index < Len(CallSequences)) =>
        \A j \in 0..(Len(CallSequences) - 1) :
            j # call.input_index =>
                LET o == ViewCall(call.view, j, call.annex).hash
                IN  /\ o # ret.hash
                    /\ Len(o.pre) = Len(ret.hash.pre)
                    /\ Slice(o.pre, 1, 137) = Slice(ret.hash.pre, 1, 137)
                    /\ Slice(o.pre, 142, Len(o.pre)) = Slice(ret.hash.pre, 142, Len(o.pre))
                    /\ Slice(o.pre, 138, 141) = LE4(j)
                    /\ Slice(ret.hash.pre, 138, 141) = LE4(call.input_index)

C7_Witness ==
    /\ ViewReturned
    /\ Len(CallSequences) >= 2
    /\ call.input_index = 1
    /\ call.annex.some
    /\ ret.hash # ViewCall(call.view, 0, call.annex).hash

\* what a call returns when nothing else runs
SequentialResult(a) ==
    IF a.kind = "Transaction"
    THEN to_templatehash_Transaction(a.view, a.input_index, a.annex)
    ELSE to_templatehash_TransactionTemplate(a.view, a.input_index, a.annex)

\* C8: whatever the other thread does and whatever ran before, a finished call
\* has returned what its arguments alone determine, so calls on equal
\* arguments return equal digests; the same holds for the intermediate digests.
C8_Deterministic ==
    /\ \A t \in Threads :
        /\ pc[t] \in {"done", "panicked"} => tres[t] = SequentialResult(targs[t])
        /\ Len(acc[t]) >= 1 => acc[t][1] = sha_sequences(view_sequences(targs[t]))
        /\ Len(acc[t]) >= 2 => acc[t][2] = sha_outputs(view_outputs(targs[t]))
        /\ Len(acc[t]) >= 3 => acc[t][3] = sha_annex(targs[t].annex.v)
    /\ \A t1, t2 \in Threads :
        (pc[t1] = "done" /\ pc[t2] = "done" /\ targs[t1] = targs[t2]) => tres[t1] = tres[t2]

C8_Witness ==
    /\ pc[1] = "done"
    /\ pc[2] = "done"
    /\ targs[1] = targs[2]
    /\ targs[1].annex.some
    /\ tres[1].outcome = "returned"
    /\ tres[1] = tres[2]

\* C9: templatehash hashes SHA256("TemplateHash") twice (64 bytes) and then the
\* preimage; the three digesters hash their preimage with no seed; the tagged
\* hash of a preimage is never its plain SHA-256.
C9_OnlyCombinerTagged ==
    /\ (call.op = "templatehash" \/ ViewReturned) =>
        /\ Slice(ret.hash.pre, 1, 64) = TagSeed
        /\ ret.hash.pre = TagSeed \o Body(ret.hash)
        /\ ret.hash.pre # Body(ret.hash)
        /\ ret.hash # PlainSha256(Body(ret.hash))
    /\ ViewReturned =>
        \A k \in 1..Len(ret.digests) : Slice(ret.digests[k].pre, 1, 64) # TagSeed
    /\ call.op \in {"sha_sequences", "sha_outputs", "sha_annex"} =>
        /\ Slice(ret.hash.pre, 1, 64) # TagSeed
        /\ call.op = "sha_sequences" => ret.hash.pre = SequencesPreimage(call.items)
        /\ call.op = "sha_outputs" => ret.hash.pre = OutputsPreimage(call.items)

C9_Witness ==
    /\ call.op = "templatehash"
    /\ ret.outcome = "returned"
    /\ Len(ret.hash.pre) = 64 + 77
    /\ ret.hash # PlainSha256(Body(ret.hash))

\* C10: with the assertion compiled out, to_templatehash with input_index not
\* below the number of sequences still returns, and returns templatehash of the
\* digests of the whole lists and that input_index; the low-level templatehash
\* returns a digest for every input_index.
C10_NoIndexing ==
    /\ (call.op \in ViewOps /\ ~debug_assertions) =>
        /\ ret.outcome = "returned"
        /\ ret.hash = templatehash(call.view.version, call.view.lock_time, sha_sequences(CallSequences), sha_outputs(CallOutputs),
                                   call.input_index, IF call.annex.some THEN Some(sha_annex(call.annex.v)) ELSE NoneHash)
        /\ Slice(Body(ret.hash), 74, 77) = LE4(call.input_index)
    /\ call.op = "templatehash" =>
        /\ ret.outcome = "returned"
        /\ ret.hash.kind = "sha256"
        /\ Slice(Body(ret.hash), 74, 77) = LE4(call.input_index)

C10_Witness ==
    /\ ~debug_assertions
    /\ call.op = "Transaction::to_templatehash"
    /\ Len(call.view.input) = 1
    /\ call.input_index = 16909060
    /\ ret.outcome = "returned"
    /\ Slice(Body(ret.hash), 74, 77) = <<Lit(4), Lit(3), Lit(2), Lit(1)>>

====
